---- MODULE Spec2Model ----
(***************************************************************************)
(* Cutelyst::Context (src/Cutelyst/context.cpp): the per-request dispatch  *)
(* context.  The model keeps the fields of ContextPrivate that the         *)
(* dispatch operations read and write, the status flags of the             *)
(* EngineRequest, and the C++ call stack (frames) of the single thread     *)
(* that runs the request: a Component body runs between the push and the   *)
(* pop of Context::execute and may call back into the context.  The        *)
(* optional profiler (d->stats) only brackets the call of the component    *)
(* and has no effect on the fields below; it is left out.                  *)
(***************************************************************************)
EXTENDS Integers, Sequences, FiniteSets, TLC

\* ------------------------------------------------------------- bounds
recursion  == 2    \* the RECURSION limit read once by Context::execute
MaxErrors  == 1    \* error(msg) / a refused execute() are called while fewer messages are held
MaxPending == 3    \* length of pendingAsync
MaxAsync   == 2    \* detachAsync is called while asyncDetached is below this
MaxUnmatched == 1  \* attachAsync is called while asyncDetached is above -MaxUnmatched

Actions    == {"act"}               \* the Actions the dispatcher queues in pendingAsync
Components == {"cmp"}               \* the Components execute() is called with by a caller
Messages   == {"", "oops"}          \* arguments of error(): the empty string and a message

VARIABLES
    stack,          \* d->stack: QStack<Component *>
    error,          \* d->error: QStringList
    state,          \* d->state
    asyncDetached,  \* d->asyncDetached
    asyncAction,    \* d->asyncAction: cursor into pendingAsync
    pendingAsync,   \* d->pendingAsync
    status,         \* d->engineRequest->status: subset of {"Async", "Finalized"}
    frames,         \* the call stack: execute() and attachAsync() activations
    out,            \* the operation of the latest step, then what it emitted or returned
    invoked,        \* history: indices of pendingAsync whose component attachAsync invoked
    stopped,        \* history: indices of pendingAsync at which an attachAsync loop stopped
    finalizeCount,  \* history: number of times engineRequest->finalize() ran
    afterDispatchCount, \* history: number of times app->afterDispatch(c) was emitted
    detached,       \* d->detached
    uriIn,          \* the latest uriFor / uriForAction call: its arguments
    uriOut          \* the latest uriFor / uriForAction call: what it did and returned

vars == <<stack, error, state, asyncDetached, asyncAction, pendingAsync, status,
          frames, out, invoked, stopped, finalizeCount, afterDispatchCount,
          detached, uriIn, uriOut>>

\* ------------------------------------------------------------ helpers
Top(s) == s[Len(s)]
Pop(s) == SubSeq(s, 1, Len(s) - 1)
Push(s, x) == Append(s, x)

\* An activation of execute() whose component body is running (entry: d->stack
\* when execute() was called), and an activation of attachAsync() inside its
\* loop (start: d->asyncAction when it began to resume; ret: what the
\* execute() of the loop returned).
ExecFrame(code, entry) ==
    [fn |-> "execute", code |-> code, pc |-> "body", entry |-> entry, start |-> 0, ret |-> TRUE]
AttachFrame(pc, start, r) ==
    [fn |-> "attachAsync", code |-> "-", pc |-> pc, entry |-> <<>>, start |-> start, ret |-> r]

\* A context operation is called by the engine (no activation) or by the body
\* of the Component that is executing.
CanCall == IF frames = <<>> THEN TRUE ELSE Top(frames).fn = "execute"
InBody == IF frames = <<>> THEN FALSE ELSE Top(frames).fn = "execute"
InAttach(pc) ==
    IF frames = <<>> THEN FALSE ELSE Top(frames).fn = "attachAsync" /\ Top(frames).pc = pc

\* execute() returns r to `caller`: inside attachAsync() the value is tested
\* next, elsewhere the calling body goes on.
Return(caller, r) ==
    IF caller = <<>> THEN caller
    ELSE IF Top(caller).fn = "attachAsync"
         THEN Push(Pop(caller), AttachFrame("ret", Top(caller).start, r))
         ELSE caller

Bool(r) == IF r THEN "true" ELSE "false"

Context_error_replace(err, msg) == IF msg = "" THEN <<>> ELSE <<msg>>

\* Context::error(const QString &): an empty message clears the list.
Context_error(err, msg) == IF msg = "" THEN <<>> ELSE Append(err, msg)

\* The message execute() builds when the limit is hit.
DeepRecursion == "Deep recursion detected"

\* d->stack.size() >= recursion
RecursionExceeded_gt(s) == Len(s) > recursion
RecursionExceeded(s) == Len(s) >= recursion

\* d->stack.push(code)
StackPush(s, code) == Push(s, code)

\* d->stack.pop()
StackPop_skip(s) == s
StackPop(s) == Pop(s)

\* Context::execute(code), called with `caller` as the call stack to return to.
\* Either it fails at once on the recursion limit or the component body starts.
execute(code, caller, evs) ==
    IF RecursionExceeded(stack)
    THEN /\ error' = Context_error(error, DeepRecursion)
         /\ state' = FALSE
         /\ frames' = Return(caller, FALSE)
         /\ out' = evs \o <<"limit", "false">>
         /\ UNCHANGED stack
    ELSE /\ stack' = StackPush(stack, code)
         /\ frames' = Push(caller, ExecFrame(code, stack))
         /\ out' = evs \o <<"invoke">>
         /\ UNCHANGED <<error, state>>

\* EngineRequest::finalize(): the transport sends the response.
EngineRequest_finalize ==
    /\ status' = status \cup {"Finalized"}
    /\ finalizeCount' = finalizeCount + 1

IsFinalized_never == FALSE

\* d->engineRequest->status & EngineRequest::Finalized
IsFinalized == "Finalized" \in status

\* Context::finalize()
finalize_unguarded(evs) ==
    /\ EngineRequest_finalize
    /\ out' = evs \o <<"finalize">>
finalize(evs) ==
    IF IsFinalized
    THEN /\ out' = evs \o <<"warning">>
         /\ UNCHANGED <<status, finalizeCount>>
    ELSE /\ EngineRequest_finalize
         /\ out' = evs \o <<"finalize">>

\* No uriFor call has been made.
NoCall == [op |-> "none"]

\* ------------------------------------------------------------ actions
Init ==
    /\ stack = <<>>
    /\ error = <<>>
    /\ state = FALSE
    /\ asyncDetached = 0
    /\ asyncAction = 0
    /\ pendingAsync = <<>>
    /\ status = {}
    /\ frames = <<>>
    /\ out = <<"new">>
    /\ invoked = <<>>
    /\ stopped = {}
    /\ finalizeCount = 0
    /\ afterDispatchCount = 0
    /\ detached = FALSE
    /\ uriIn = NoCall
    /\ uriOut = NoCall

\* c->execute(code) by the engine or by an executing component
Execute(code) ==
    /\ CanCall
    /\ RecursionExceeded(stack) => Len(error) < MaxErrors
    /\ execute(code, frames, <<"execute">>)
    /\ UNCHANGED <<asyncDetached, asyncAction, pendingAsync, status, invoked, stopped,
                   finalizeCount>>
    /\ UNCHANGED <<afterDispatchCount, detached, uriIn, uriOut>>

\* the executing component returns r: execute() pops it and returns r
ExecuteReturn(r) ==
    /\ InBody
    /\ stack' = StackPop(stack)
    /\ frames' = Return(Pop(frames), r)
    /\ out' = <<"return", Bool(r)>>
    /\ UNCHANGED <<error, state, asyncDetached, asyncAction, pendingAsync, status,
                   invoked, stopped, finalizeCount>>
    /\ UNCHANGED <<afterDispatchCount, detached, uriIn, uriOut>>

\* c->error(msg)
Error(msg) ==
    /\ CanCall
    /\ msg # "" => Len(error) < MaxErrors
    /\ error' = Context_error(error, msg)
    /\ out' = <<"error">>
    /\ UNCHANGED <<stack, state, asyncDetached, asyncAction, pendingAsync, status,
                   frames, invoked, stopped, finalizeCount>>
    /\ UNCHANGED <<afterDispatchCount, detached, uriIn, uriOut>>

\* c->setState(s)
SetState(s) ==
    /\ CanCall
    /\ state' = s
    /\ out' = <<"setState">>
    /\ UNCHANGED <<stack, error, asyncDetached, asyncAction, pendingAsync, status,
                   frames, invoked, stopped, finalizeCount>>
    /\ UNCHANGED <<afterDispatchCount, detached, uriIn, uriOut>>

\* c->finalize()
Finalize ==
    /\ CanCall
    /\ finalize(<<"finalize()">>)
    /\ UNCHANGED <<stack, error, state, asyncDetached, asyncAction, pendingAsync,
                   frames, invoked, stopped>>
    /\ UNCHANGED <<afterDispatchCount, detached, uriIn, uriOut>>

\* Controller::_DISPATCH: while the context is detached the next action of the
\* chain is queued instead of dispatched.
Enqueue(action) ==
    /\ CanCall
    /\ asyncDetached # 0
    /\ Len(pendingAsync) < MaxPending
    /\ pendingAsync' = Append(pendingAsync, action)
    /\ out' = <<"enqueue">>
    /\ UNCHANGED <<stack, error, state, asyncDetached, asyncAction, status,
                   frames, invoked, stopped, finalizeCount>>
    /\ UNCHANGED <<afterDispatchCount, detached, uriIn, uriOut>>

\* c->detachAsync()
DetachAsync ==
    /\ CanCall
    /\ asyncDetached < MaxAsync
    /\ asyncDetached' = asyncDetached + 1
    /\ status' = status \cup {"Async"}
    /\ out' = <<"detachAsync">>
    /\ UNCHANGED <<stack, error, state, asyncAction, pendingAsync,
                   frames, invoked, stopped, finalizeCount>>
    /\ UNCHANGED <<afterDispatchCount, detached, uriIn, uriOut>>

\* if (--d->asyncDetached): true when suspensions are still outstanding
Outstanding_positive(n) == n > 0
Outstanding(n) == n # 0

\* c->attachAsync(), up to the loop
AttachAsync ==
    /\ CanCall
    /\ asyncDetached > -MaxUnmatched
    /\ asyncDetached' = asyncDetached - 1
    /\ IF Outstanding(asyncDetached - 1)
       THEN /\ out' = <<"attachAsync">>
            /\ UNCHANGED frames
       ELSE IF IsFinalized
       THEN /\ out' = <<"attachAsync", "warning">>
            /\ UNCHANGED frames
       ELSE /\ out' = <<"attachAsync", "resume">>
            /\ frames' = Push(frames, AttachFrame("loop", asyncAction, TRUE))
    /\ UNCHANGED <<stack, error, state, asyncAction, pendingAsync, status,
                   invoked, stopped, finalizeCount>>
    /\ UNCHANGED <<afterDispatchCount, detached, uriIn, uriOut>>

\* the end of attachAsync(), after the loop
AttachTail_finalizeFirst(evs) ==
    /\ IF "Async" \in status
       THEN IF IsFinalized
            THEN /\ out' = evs \o <<"warning", "afterDispatch">>
                 /\ UNCHANGED <<status, finalizeCount>>
            ELSE /\ EngineRequest_finalize
                 /\ out' = evs \o <<"finalize", "afterDispatch">>
       ELSE /\ out' = evs
            /\ UNCHANGED <<status, finalizeCount>>
    /\ afterDispatchCount' = afterDispatchCount + (IF "Async" \in status THEN 1 ELSE 0)
    /\ frames' = Pop(frames)
AttachTail(evs) ==
    /\ IF "Async" \in status
       THEN /\ afterDispatchCount' = afterDispatchCount + 1
            /\ finalize(evs \o <<"afterDispatch">>)
       ELSE /\ out' = evs
            /\ UNCHANGED <<status, finalizeCount, afterDispatchCount>>
    /\ frames' = Pop(frames)

\* d->asyncAction++
Advance_two(i) == i + 2
Advance(i) == i + 1

\* attachAsync(): the loop condition and the call of execute(action)
AttachLoop ==
    /\ InAttach("loop")
    /\ IF asyncAction < Len(pendingAsync)
       THEN /\ asyncAction' = Advance(asyncAction)
            /\ execute(pendingAsync[asyncAction + 1], frames, <<"attachAsync:loop">>)
            /\ invoked' = IF RecursionExceeded(stack) THEN invoked
                          ELSE Append(invoked, asyncAction + 1)
            /\ UNCHANGED <<status, stopped, finalizeCount, afterDispatchCount>>
       ELSE /\ AttachTail(<<"attachAsync:done">>)
            /\ UNCHANGED <<stack, error, state, asyncAction, invoked, stopped>>
    /\ UNCHANGED <<asyncDetached, pendingAsync>>
    /\ UNCHANGED <<detached, uriIn, uriOut>>

\* else if (d->asyncDetached): the action suspended the context again
Resuspended_never == FALSE
Resuspended == asyncDetached # 0

\* attachAsync(): execute(action) has returned
AttachAfter ==
    /\ InAttach("ret")
    /\ IF ~Top(frames).ret
       THEN /\ AttachTail(<<"attachAsync:break">>)
            /\ stopped' = stopped \cup {asyncAction}
       ELSE IF Resuspended
       THEN /\ frames' = Pop(frames)
            /\ out' = <<"attachAsync:detached">>
            /\ stopped' = stopped \cup {asyncAction}
            /\ UNCHANGED <<status, finalizeCount, afterDispatchCount>>
       ELSE /\ frames' = Push(Pop(frames), AttachFrame("loop", Top(frames).start, TRUE))
            /\ out' = <<"attachAsync:next">>
            /\ UNCHANGED <<status, stopped, finalizeCount, afterDispatchCount>>
    /\ UNCHANGED <<stack, error, state, asyncDetached, asyncAction, pendingAsync,
                   invoked>>
    /\ UNCHANGED <<detached, uriIn, uriOut>>

Next ==
    \/ \E code \in Components : Execute(code)
    \/ \E r \in BOOLEAN : ExecuteReturn(r)
    \/ \E msg \in Messages : Error(msg)
    \/ \E s \in BOOLEAN : SetState(s)
    \/ Finalize
    \/ \E action \in Actions : Enqueue(action)
    \/ DetachAsync
    \/ AttachAsync
    \/ AttachLoop
    \/ AttachAfter

Spec == Init /\ [][Next]_vars

\* ------------------------------------------------------------ detach
\* a null Action pointer
nullptr == "nullptr"

\* Dispatcher::forward(c, component): runs the component in this request cycle
Dispatcher_forward(component, evs) == execute(component, frames, evs \o <<"forward">>)

\* c->detach(action)
Detach(action) ==
    /\ CanCall
    /\ IF action # nullptr
       THEN /\ RecursionExceeded(stack) => Len(error) < MaxErrors
            /\ Dispatcher_forward(action, <<"detach(action)">>)
            /\ UNCHANGED detached
       ELSE /\ detached' = TRUE
            /\ out' = <<"detach()">>
            /\ UNCHANGED <<stack, error, state, frames>>
    /\ UNCHANGED <<asyncDetached, asyncAction, pendingAsync, status, invoked, stopped,
                   finalizeCount, afterDispatchCount, uriIn, uriOut>>

\* The operations of Spec together with detach().  detach() writes only
\* d->detached, which nothing else in the file reads but detached(), and
\* detach(action) is a forward, so Spec loses no behaviour of the other fields.
NextDetach ==
    \/ Next
    \/ \E action \in Actions \cup {nullptr} : Detach(action)

SpecDetach == Init /\ [][NextDetach]_vars

\* ------------------------------------------------------------ uriFor
\* Strings are sequences of characters; a path segment is one character.
MaxArgs == 2
MaxCaptures == 2
MaxQuery == 2

Seqs(S, n) == UNION {[1..k -> S] : k \in 0..n}
Segments == {"a", "b"}
Paths == {<<>>, <<"/">>, <<"/", "x">>, <<"x">>}
Namespaces == {<<>>, <<"n">>}
Keys == {"q", "r"}
Values == {"1", "2"}

\* QMultiMap keeps its entries sorted by key: a ParamsMultiMap is given as the
\* sequence of <<key, value>> pairs that constBegin()..constEnd() enumerates.
KeyRank(k) == IF k = "q" THEN 1 ELSE 2
ParamsMultiMaps ==
    {m \in Seqs(Keys \X Values, MaxQuery) :
        \A i \in 1..(Len(m) - 1) : KeyRank(m[i][1]) <= KeyRank(m[i + 1][1])}

\* The actions the dispatcher knows, and one it has no path for.
Registered == {"list", "item", "chain"}
UriActions == Registered \cup {"ghost"}
\* d->action, the action being executed
CurrentAction == "item"
\* the first character of an action's path
Initial(action) ==
    CASE action = "list" -> "l" [] action = "item" -> "i" [] action = "chain" -> "c"
      [] OTHER -> "g"
ActionPaths == {<<"/", "l">>, <<"/", "i">>, <<"/", "c">>, <<"/", "u">>}

\* Action::numberOfCaptures()
numberOfCaptures(action) ==
    CASE action = "item" -> 1 [] action = "chain" -> 2 [] OTHER -> 0

\* Dispatcher::expandAction(c, action), for an action that is not null
Dispatcher_expandAction(action) == action

\* QStringList::join('/')
RECURSIVE join(_)
join(list) ==
    IF list = <<>> THEN <<>>
    ELSE IF Len(list) = 1 THEN <<list[1]>>
    ELSE <<list[1], "/">> \o join(Tail(list))

\* Dispatcher::uriForAction(action, captures): the canonical path, or the
\* empty string when the action with these captures has none.
Dispatcher_uriForAction(action, captures) ==
    IF action \in Registered /\ Len(captures) = numberOfCaptures(action)
    THEN <<"/", Initial(action)>>
         \o (IF captures = <<>> THEN <<>> ELSE <<"/">> \o join(captures))
    ELSE <<>>

\* Dispatcher::getActionByPath(path)
Dispatcher_getActionByPath(path) ==
    CASE path = <<"/", "l">> -> "list"
      [] path = <<"/", "i">> -> "item"
      [] path = <<"/", "c">> -> "chain"
      [] OTHER -> nullptr

\* a default-constructed QUrl
EmptyUrl == [valid |-> FALSE, path |-> <<>>, query |-> <<>>]

\* QUrlQuery::addQueryItem(key, value) appends the pair to the end of the query
QUrlQuery_addQueryItem(query, item) == Append(query, item)

\* the loop of uriFor over queryValues: `it` runs from constEnd() (one past
\* the last entry) down to constBegin() (the first entry)
RECURSIVE QueryLoop(_, _, _)
QueryLoop(query, queryValues, it) ==
    IF it # 1
    THEN QueryLoop(QUrlQuery_addQueryItem(query, queryValues[it - 1]), queryValues, it - 1)
    ELSE query

\* _path.startsWith('/')
StartsWithSlash(str) == str # <<>> /\ str[1] = "/"

\* Context::uriFor(path, args, queryValues); controllerNS is
\* d->action->controller()->ns().  The scheme and authority are those of
\* d->request->uri() and are left out.
Context_uriFor(path, args, queryValues, controllerNS) ==
    LET p0 == IF path = <<>> THEN controllerNS ELSE path
        p1 == IF args # <<>>
              THEN IF p0 = <<"/">> THEN p0 \o join(args)
                   ELSE p0 \o <<"/">> \o join(args)
              ELSE p0
        p2 == IF StartsWithSlash(p1) THEN p1 ELSE <<"/">> \o p1
    IN  [valid |-> TRUE, path |-> p2,
         query |-> IF queryValues # <<>>
                   THEN QueryLoop(<<>>, queryValues, Len(queryValues) + 1)
                   ELSE <<>>]

NeedsCapture_le(localCaptures, n) == Len(localCaptures) <= n

\* localCaptures.size() < expandedAction->numberOfCaptures()
NeedsCapture(localCaptures, n) == Len(localCaptures) < n

\* the while loop of uriFor(action, ...): leading args become captures
RECURSIVE MoveCaptures(_, _, _)
MoveCaptures(localCaptures, localArgs, n) ==
    IF NeedsCapture(localCaptures, n) /\ localArgs # <<>>
    THEN MoveCaptures(Append(localCaptures, Head(localArgs)), Tail(localArgs), n)
    ELSE <<localCaptures, localArgs>>

PathIsEmpty_never(path) == FALSE

\* path.isEmpty()
PathIsEmpty(path) == path = <<>>

\* What a call records besides the returned uri: the final captures and args,
\* the question put to Dispatcher::uriForAction, whether the path-based
\* uriFor was called, whether the call crashed.
Outcome(uri, captures, args, asked, delegated) ==
    [uri |-> uri, captures |-> captures, args |-> args, asked |-> asked,
     delegated |-> delegated, crashed |-> FALSE]
Crashed ==
    [uri |-> EmptyUrl, captures |-> <<>>, args |-> <<>>, asked |-> <<>>,
     delegated |-> FALSE, crashed |-> TRUE]

\* expandedAction->numberOfCaptures() as uriFor(action, ...) reads it.  The
\* expansion is of `action`, not of localAction: for a null action the
\* dispatcher and the read dereference a null pointer, which is undefined:
\* the call crashes (-1) or reads an arbitrary count.
ExpandedCaptures(action) ==
    IF action = nullptr
    THEN (-1)..MaxCaptures
    ELSE {numberOfCaptures(Dispatcher_expandAction(action))}

\* Context::uriFor(action, captures, args, queryValues), n being the count read
Context_uriFor_action(action, n, captures, args, queryValues, controllerNS) ==
    LET localAction == IF action = nullptr THEN CurrentAction ELSE action
        split == IF n > 0
                 THEN MoveCaptures(captures, args, n)
                 ELSE <<<<>>, captures \o args>>
        path == Dispatcher_uriForAction(localAction, split[1])
    IN  IF n = -1 THEN Crashed
        ELSE IF PathIsEmpty(path)
        THEN Outcome(EmptyUrl, split[1], split[2], <<localAction, split[1]>>, FALSE)
        ELSE Outcome(Context_uriFor(path, split[2], queryValues, controllerNS),
                     split[1], split[2], <<localAction, split[1]>>, TRUE)

Call(op, path, action, captures, args, queryValues, controllerNS) ==
    [op |-> op, path |-> path, action |-> action, captures |-> captures,
     args |-> args, queryValues |-> queryValues, controllerNS |-> controllerNS]

\* A context on which one of the calls is about to be made.
InitUri ==
    /\ stack = <<>>
    /\ error = <<>>
    /\ state = FALSE
    /\ asyncDetached = 0
    /\ asyncAction = 0
    /\ pendingAsync = <<>>
    /\ status = {}
    /\ frames = <<>>
    /\ out = <<"new">>
    /\ invoked = <<>>
    /\ stopped = {}
    /\ finalizeCount = 0
    /\ afterDispatchCount = 0
    /\ detached = FALSE
    /\ \/ \E path \in Paths, args \in Seqs(Segments, MaxArgs),
             queryValues \in ParamsMultiMaps, controllerNS \in Namespaces :
             uriIn = Call("uriFor(path)", path, nullptr, <<>>, args, queryValues,
                          controllerNS)
       \/ \E action \in UriActions \cup {nullptr},
             captures \in Seqs(Segments, MaxCaptures),
             args \in Seqs(Segments, MaxArgs),
             queryValues \in ParamsMultiMaps, controllerNS \in Namespaces :
             uriIn = Call("uriFor(action)", <<>>, action, captures, args, queryValues,
                          controllerNS)
       \/ \E path \in ActionPaths,
             captures \in Seqs(Segments, MaxCaptures),
             args \in Seqs(Segments, MaxArgs),
             queryValues \in ParamsMultiMaps, controllerNS \in Namespaces :
             uriIn = Call("uriForAction", path, nullptr, captures, args, queryValues,
                          controllerNS)
    /\ uriOut = NoCall

\* c->uriFor(path, args, queryValues)
UriFor ==
    /\ uriIn.op = "uriFor(path)"
    /\ uriOut = NoCall
    /\ uriOut' = Outcome(Context_uriFor(uriIn.path, uriIn.args, uriIn.queryValues,
                                        uriIn.controllerNS),
                         <<>>, uriIn.args, <<>>, FALSE)
    /\ UNCHANGED <<stack, error, state, asyncDetached, asyncAction, pendingAsync,
                   status, frames, out, invoked, stopped, finalizeCount,
                   afterDispatchCount, detached, uriIn>>

\* c->uriFor(action, captures, args, queryValues)
UriForActionObject ==
    /\ uriIn.op = "uriFor(action)"
    /\ uriOut = NoCall
    /\ \E n \in ExpandedCaptures(uriIn.action) :
           uriOut' = Context_uriFor_action(uriIn.action, n, uriIn.captures, uriIn.args,
                                           uriIn.queryValues, uriIn.controllerNS)
    /\ UNCHANGED <<stack, error, state, asyncDetached, asyncAction, pendingAsync,
                   status, frames, out, invoked, stopped, finalizeCount,
                   afterDispatchCount, detached, uriIn>>

\* c->uriForAction(path, captures, args, queryValues)
UriForAction ==
    /\ uriIn.op = "uriForAction"
    /\ uriOut = NoCall
    /\ LET action == Dispatcher_getActionByPath(uriIn.path)
       IN  IF action = nullptr
           THEN uriOut' = Outcome(EmptyUrl, uriIn.captures, uriIn.args, <<>>, FALSE)
           ELSE \E n \in ExpandedCaptures(action) :
                   uriOut' = Context_uriFor_action(action, n, uriIn.captures,
                                                   uriIn.args, uriIn.queryValues,
                                                   uriIn.controllerNS)
    /\ UNCHANGED <<stack, error, state, asyncDetached, asyncAction, pendingAsync,
                   status, frames, out, invoked, stopped, finalizeCount,
                   afterDispatchCount, detached, uriIn>>

NextUri ==
    \/ UriFor
    \/ UriForActionObject
    \/ UriForAction

SpecUri == InitUri /\ [][NextUri]_vars

\* ------------------------------------------------------------ claims
Has(seq, x) == \E i \in 1..Len(seq) : seq[i] = x
HasAttachFrame == \E i \in 1..Len(frames) : frames[i].fn = "attachAsync"

\* The fields of the context and of its transport, without the call stack.
CtxVars == <<stack, error, state, asyncDetached, asyncAction, pendingAsync, status,
             finalizeCount>>

\* Lemma: attachAsync() is inside its loop only with the Async flag set, so the
\* end of attachAsync() always signals afterDispatch and calls finalize().
AsyncFlagSet == HasAttachFrame => "Async" \in status

\* C1: when an execute() returns, d->stack (depth and contents) is what it was
\* when that execute() was called, at every nesting level and so for the
\* outermost call; an execute() refused at the recursion limit and a finalize()
\* called by a component leave d->stack alone.
C1_StackRestored ==
    [][ /\ (out'[1] = "return" => stack' = Top(frames).entry)
        /\ (Has(out', "limit") => stack' = stack)
        /\ (out'[1] = "finalize()" => stack' = stack) ]_vars

\* The outermost execute() has returned after a nested execute() was refused at
\* the limit and the context was finalized.
C1_Witness ==
    /\ frames = <<>> /\ out[1] = "return" /\ stack = <<>>
    /\ error = <<DeepRecursion>> /\ status = {"Finalized"}

\* C2: execute() called with d->stack.size() >= recursion does not invoke the
\* component, leaves d->stack unchanged, appends exactly one message to the
\* errors, sets state to false and returns false; the stack depth never
\* exceeds the recursion limit.
C2_LimitRefuses ==
    /\ [](Len(stack) <= recursion)
    /\ [][ (out'[1] \in {"execute", "attachAsync:loop"} /\ Len(stack) >= recursion) =>
             /\ stack' = stack
             /\ error' = Append(error, DeepRecursion)
             /\ state' = FALSE
             /\ Top(out') = "false"
             /\ ~Has(out', "invoke")
             /\ invoked' = invoked
             /\ Len(frames') = Len(frames)
             /\ \A i \in 1..Len(frames) : frames'[i].fn = frames[i].fn ]_vars

\* execute() has just been refused at the recursion limit.
C2_Witness ==
    /\ Has(out, "limit") /\ Len(stack) = recursion
    /\ state = FALSE /\ error = <<DeepRecursion>>

\* An attachAsync() that resumed dispatch returns.
AttachReturns == (InAttach("loop") \/ InAttach("ret")) /\ frames' = Pop(frames)

\* The last n - start invocations are of the entries start+1 .. n, in order.
RanFrom(start, inv, n) ==
    /\ Len(inv) >= n - start
    /\ \A j \in 1..(n - start) : inv[Len(inv) - (n - start) + j] = start + j

\* C3 as stated: when the attachAsync() that resumed dispatch returns, every
\* entry of pendingAsync from the cursor it started at has been run, in queue
\* order, exactly once.
C3_RunsAllAlways ==
    [][ AttachReturns =>
          RanFrom(Top(frames).start, invoked', Len(pendingAsync')) ]_vars

\* C3 amended: the same, provided no execute() of these entries returned
\* failure (a false result or the recursion limit) or returned with the
\* context suspended again.
C3_RunsAllUnlessStopped ==
    [][ (AttachReturns
         /\ stopped' \cap ((Top(frames).start + 1)..Len(pendingAsync')) = {}) =>
          RanFrom(Top(frames).start, invoked', Len(pendingAsync')) ]_vars

\* detachAsync, two actions queued, one attachAsync: both have run, in order.
C3_Witness ==
    /\ out[1] = "attachAsync:done" /\ frames = <<>>
    /\ Len(pendingAsync) = 2 /\ invoked = <<1, 2>> /\ stopped = {}

\* C4: an attachAsync() whose decrement leaves asyncDetached nonzero only
\* decrements it: nothing is executed, the cursor stays, afterDispatch is not
\* signalled and nothing is finalized; dispatch is resumed only by the call
\* that brings asyncDetached to 0.
C4_OnlyDecrements ==
    [][ out'[1] = "attachAsync" =>
          /\ asyncDetached' = asyncDetached - 1
          /\ (asyncDetached' # 0 =>
                /\ out' = <<"attachAsync">>
                /\ UNCHANGED <<stack, error, state, asyncAction, pendingAsync, status,
                               frames, invoked, stopped, finalizeCount>>) ]_vars

\* attachAsync() has returned with a suspension outstanding and an action queued.
C4_Witness ==
    /\ out = <<"attachAsync">> /\ asyncDetached = 1
    /\ asyncAction < Len(pendingAsync) /\ ~IsFinalized

\* C5: asyncDetached is never negative.
C5_NeverNegative == asyncDetached >= 0

\* C6 as stated: when the execute() of a pending action returns failure, or
\* returns with the context suspended again, attachAsync() returns without
\* signalling afterDispatch and without finalizing.
C6_StopsWithoutFinalize ==
    [][ (InAttach("ret") /\ (~Top(frames).ret \/ asyncDetached # 0)) =>
          /\ frames' = Pop(frames)
          /\ ~Has(out', "afterDispatch")
          /\ ~Has(out', "finalize") /\ ~Has(out', "warning")
          /\ UNCHANGED <<status, finalizeCount>> ]_vars

\* C6 amended: on failure the loop stops and attachAsync() signals
\* afterDispatch and calls finalize() before it returns; on success with the
\* context suspended again it returns without either.
C6_BreakFinalizes ==
    [][ InAttach("ret") =>
          IF ~Top(frames).ret
          THEN /\ frames' = Pop(frames)
               /\ out' = <<"attachAsync:break", "afterDispatch",
                           IF IsFinalized THEN "warning" ELSE "finalize">>
               /\ IsFinalized'
               /\ asyncAction' = asyncAction
          ELSE IF asyncDetached # 0
          THEN /\ frames' = Pop(frames)
               /\ out' = <<"attachAsync:detached">>
               /\ UNCHANGED CtxVars
          ELSE TRUE ]_vars

\* A pending action failed while another was still queued: finalized at once.
C6_Witness ==
    /\ out = <<"attachAsync:break", "afterDispatch", "finalize">>
    /\ asyncAction < Len(pendingAsync) /\ invoked = <<1>>

\* a step that called Context::finalize(), directly or at the end of attachAsync()
CalledFinalize(o) == o[1] = "finalize()" \/ Has(o, "afterDispatch")

\* C7: engineRequest->finalize() runs exactly once, in the first finalize()
\* call; the Finalized flag is never reset; a later finalize() changes nothing
\* of the context and reports a warning.
C7_FinalizeOnce ==
    /\ [](finalizeCount <= 1 /\ (IsFinalized <=> finalizeCount = 1))
    /\ [][IsFinalized => IsFinalized']_vars
    /\ [][ CalledFinalize(out') =>
             IF IsFinalized
             THEN Top(out') = "warning" /\ UNCHANGED CtxVars
             ELSE Top(out') = "finalize" /\ finalizeCount' = 1 /\ IsFinalized' ]_vars

\* finalize() was called on a finalized context.
C7_Witness == out = <<"finalize()", "warning">> /\ finalizeCount = 1

C9_InvokedIsPrefix == \A i \in 1..Len(invoked) : invoked[i] = i

\* C10: 0 <= asyncAction <= pendingAsync.size() in every state, and no step
\* decreases asyncAction.
C10_CursorInRange ==
    /\ [](0 <= asyncAction /\ asyncAction <= Len(pendingAsync))
    /\ [][asyncAction' >= asyncAction]_vars

\* The loop has taken the last entry of a queue of two.
C10_Witness ==
    /\ out[1] = "attachAsync:loop" /\ asyncAction = 2 /\ Len(pendingAsync) = 2

\* C11: an attachAsync() that brings the count of outstanding suspensions to
\* zero on a context that is already finalized only logs a warning: it runs no
\* pending action, leaves the cursor where it was, does not emit afterDispatch
\* and does not call the transport's finalize.
C11_FinalizedAttachSkips ==
    [][ (out'[1] = "attachAsync" /\ asyncDetached' = 0 /\ "Finalized" \in status)
        => /\ out' = <<"attachAsync", "warning">>
           /\ UNCHANGED <<stack, error, state, asyncAction, pendingAsync, status,
                          frames, invoked, stopped, finalizeCount,
                          afterDispatchCount>> ]_vars

\* attachAsync() reached zero on a finalized context with an entry still queued
C11_Witness ==
    /\ out = <<"attachAsync", "warning">>
    /\ asyncDetached = 0
    /\ asyncAction < Len(pendingAsync)
    /\ finalizeCount = 1

\* C12: once the context is finalized no component is invoked any more,
\* neither one passed to execute() nor one that attachAsync() takes from
\* pendingAsync (the entries left after a pending action finalized the context
\* during the resumption included).
C12_NoInvokeAfterFinalized ==
    [][ "Finalized" \in status => ~Has(out', "invoke") ]_vars

\* new is old followed by zero or more further messages
Extends(new, old) == Len(old) <= Len(new) /\ SubSeq(new, 1, Len(old)) = old

\* C13 as stated: in every step of every run (error() with any message, the
\* empty one included, execute, setState, detachAsync, attachAsync, finalize)
\* the error list is an extension of the list before the step.
C13_ErrorsOnlyGrow == [][ Extends(error', error) ]_vars

\* C13 amended: every step other than error("") extends the error list, and
\* error("") empties it.
C13_ErrorsGrowUnlessCleared ==
    [][ IF Error("") THEN error' = <<>> ELSE Extends(error', error) ]_vars

\* a recorded message was kept, in place, while a later one was added
C13_Witness == Len(error) = 2 /\ error[1] = "oops" /\ error[2] = DeepRecursion

\* C19: attachAsync() never finalizes a context that is still suspended:
\* whenever it emits afterDispatch or calls finalize(), the count of
\* outstanding suspensions is zero, also when the pending action that ended
\* the loop called detachAsync() and returned failure.
C19_FinalizesOnlyAtZero == Has(out, "afterDispatch") => asyncDetached = 0

\* C20: over any sequence and nesting of detachAsync()/attachAsync() calls,
\* a pending action that calls detachAsync() and attachAsync() while
\* attachAsync() runs it included, afterDispatch is emitted at most once for
\* the context and never after the context has been finalized.  attachAsync()
\* calls finalize() right after every emission, so a second emission is an
\* emission on a finalized context.
C20_AfterDispatchOnce == afterDispatchCount <= 1

\* C14: detach(action) with a non-null action asks the dispatcher to forward
\* to it exactly once, and the detached flag is true after the call, as it is
\* after detach().
C14_DetachActionSetsFlag ==
    out[1] = "detach(action)"
    => /\ Cardinality({i \in 1..Len(out) : out[i] = "forward"}) = 1
       /\ detached

\* the call of uriIn has returned (or crashed): uriOut holds its outcome
Returned == "uri" \in DOMAIN uriOut

\* the action the action-based uriFor was called with, nullptr if it was not
CalledAction ==
    IF uriIn.op = "uriFor(action)" THEN uriIn.action
    ELSE IF uriIn.op = "uriForAction" THEN Dispatcher_getActionByPath(uriIn.path)
    ELSE nullptr

\* C15: for a non-empty queryValues the key/value pairs of the query of
\* uriFor(path, args, queryValues) are in the order in which the mapping
\* enumerates them, and for an empty mapping the URI has no query.
C15_QueryOrderKept ==
    (Returned /\ uriIn.op = "uriFor(path)") => uriOut.uri.query = uriIn.queryValues

Min(a, b) == IF a < b THEN a ELSE b
Max(a, b) == IF a > b THEN a ELSE b

\* C16: uriFor(action, captures, args, ...) with n the capture count of the
\* expanded action: if n > 0 the leading args are moved, in order, to the end
\* of captures until captures has n elements or args is empty; if n = 0 the
\* path arguments are captures followed by args and captures is empty; final
\* captures followed by final args is always input captures followed by input
\* args; the dispatcher is asked for the path with exactly the final captures.
C16_CaptureSplit ==
    (Returned /\ CalledAction # nullptr) =>
        LET n == numberOfCaptures(Dispatcher_expandAction(CalledAction))
            c == uriIn.captures
            a == uriIn.args
            k == Min(Max(n - Len(c), 0), Len(a))
        IN  /\ ~uriOut.crashed
            /\ uriOut.captures \o uriOut.args = c \o a
            /\ n > 0 => /\ uriOut.captures = c \o SubSeq(a, 1, k)
                        /\ uriOut.args = SubSeq(a, k + 1, Len(a))
                        /\ (k = 0 \/ Len(uriOut.captures) = n \/ uriOut.args = <<>>)
            /\ n = 0 => /\ uriOut.captures = <<>>
                        /\ uriOut.args = c \o a
            /\ uriOut.asked = <<CalledAction, uriOut.captures>>

\* one capture required, none given, two args: the first arg became the capture
C16_Witness ==
    /\ Returned
    /\ uriIn.op = "uriFor(action)"
    /\ uriIn.action = "item"
    /\ uriIn.captures = <<>>
    /\ uriIn.args = <<"a", "b">>
    /\ uriOut.captures = <<"a">>
    /\ uriOut.args = <<"b">>
    /\ uriOut.uri.path = <<"/", "i", "/", "a", "/", "b">>

\* the dispatcher could not resolve the target of the call
Unresolved ==
    \/ uriIn.op = "uriForAction" /\ Dispatcher_getActionByPath(uriIn.path) = nullptr
    \/ /\ uriOut.asked # <<>>
       /\ Dispatcher_uriForAction(uriOut.asked[1], uriOut.asked[2]) = <<>>

\* C17: when the dispatcher cannot resolve the target (uriForAction with an
\* unknown path, or an action whose canonical path comes back empty) the call
\* returns an empty URI, does not call the path-based uriFor, does not fail,
\* and leaves the error list, the state and the rest of the context as they were.
C17_UnresolvedGivesEmptyUrl ==
    /\ [](Returned /\ Unresolved
           => uriOut.uri = EmptyUrl /\ ~uriOut.delegated /\ ~uriOut.crashed)
    /\ [][ (Returned' /\ Unresolved')
           => UNCHANGED <<stack, error, state, asyncDetached, asyncAction,
                          pendingAsync, status, frames, detached>> ]_vars

\* uriFor(action) on an action the dispatcher has no path for
C17_Witness ==
    /\ Returned
    /\ uriIn.op = "uriFor(action)"
    /\ uriIn.action = "ghost"
    /\ uriIn.args = <<"a">>
    /\ uriOut.asked = <<"ghost", <<>>>>
    /\ uriOut.uri = EmptyUrl

\* C18: uriFor(action, ...) with a null action behaves as the same call with
\* the executing action: that action is used for the capture count and for
\* the canonical path, so both calls return the same URI.
C18_NullMeansCurrent ==
    (Returned /\ uriIn.op = "uriFor(action)" /\ uriIn.action = nullptr) =>
        uriOut = Context_uriFor_action(CurrentAction,
                    numberOfCaptures(Dispatcher_expandAction(CurrentAction)),
                    uriIn.captures, uriIn.args, uriIn.queryValues, uriIn.controllerNS)
====
